---- MODULE Spec2Model ----
(***************************************************************************)
(* Model of app.py: a two-role chat relay.  One asyncio event loop runs    *)
(* the websocket_endpoint coroutines (one per connection); each `await`    *)
(* is a suspension point, so one action is the code between two awaits.    *)
(* clear_chat is a plain `def` route: it runs beside the event loop, so    *)
(* its loop over `connections` is interleaved with the sessions' steps.    *)
(***************************************************************************)
EXTENDS Integers, Sequences, FiniteSets, TLC

\* ------------------------------------------------------------------ bounds
NumSess   == 2     \* connection attempts (websocket objects) in a run
MaxMsgs   == 2     \* inbound text payloads received in a run
MaxClears == 1     \* POST /clear requests in a run

Sess  == 1..NumSess
Roles == {"X", "Y"}

\* ------------------------------------------------------------------ tokens
\* A bearer token as jwt.decode sees it: the role it carries and whether it
\* decodes ("ok"), is past its exp ("expired") or fails otherwise ("invalid").
Tokens == [role : Roles, kind : {"ok", "expired", "invalid"}]

\* verify_token without the checks of jwt.decode
verify_token_unchecked(token) == token.role
\* verify_token: the role, or the HTTPException(401) it raises.
verify_token(token) ==
    IF token.kind = "ok" THEN token.role
    ELSE IF token.kind = "expired" THEN "401 Token expired"
    ELSE "401 Invalid token"

\* ------------------------------------------------------------------ dict
\* `connections = {}`: a CPython dict is an array of entries in insertion
\* order; `del` leaves a hole, assigning to a present key overwrites its value
\* in place, assigning to an absent key appends an entry.  (The array is only
\* compacted when its 5 usable slots are spent, beyond the runs modelled.)
Hole == [role |-> "-", ws |-> 0]

DictLen(d) == Cardinality({i \in 1..Len(d) : d[i] # Hole})
DictHas(d, r) == \E i \in 1..Len(d) : d[i].role = r
DictGet(d, r) == d[CHOOSE i \in 1..Len(d) : d[i].role = r].ws
DictValues(d) == {d[i].ws : i \in {j \in 1..Len(d) : d[j] # Hole}}

\* connections[role] = websocket
DictSet(d, r, w) ==
    IF DictHas(d, r)
    THEN [i \in 1..Len(d) |-> IF d[i].role = r THEN [role |-> r, ws |-> w] ELSE d[i]]
    ELSE Append(d, [role |-> r, ws |-> w])

\* del connections[role]   (the caller checks DictHas: KeyError otherwise)
DictDel(d, r) == [i \in 1..Len(d) |-> IF d[i].role = r THEN Hole ELSE d[i]]

\* iter(connections.values()): the position in the entry array, the size the
\* dict had when the iterator was made, and the number of values still owed.
NoIter == [pos |-> 0, used |-> 0, len |-> 0]
DictIter(d) == [pos |-> 0, used |-> DictLen(d), len |-> DictLen(d)]

\* next(it): "error" when the size changed ("dictionary changed size during
\* iteration"), "end" on StopIteration, "late" when an entry is found although
\* every value owed was already produced, else "item".
DictNext(d, it) ==
    LET rest == {i \in (it.pos + 1)..Len(d) : d[i] # Hole}
        i    == CHOOSE j \in rest : \A k \in rest : j <= k
    IN  IF it.used # DictLen(d) THEN [st |-> "error", ws |-> 0, it |-> it]
        ELSE IF rest = {} THEN [st |-> "end", ws |-> 0, it |-> it]
        ELSE IF it.len = 0 THEN [st |-> "late", ws |-> d[i].ws,
                                 it |-> [it EXCEPT !.pos = i]]
        ELSE [st |-> "item", ws |-> d[i].ws,
              it |-> [it EXCEPT !.pos = i, !.len = it.len - 1]]

\* ------------------------------------------------------------------ store
\* class Message: a row of the messages table.
Message(id, role, body, created_at) ==
    [id |-> id, role |-> role, body |-> body, created_at |-> created_at]
NoMsg == Message(0, "-", 0, 0)

Perms(n) == {f \in [1..n -> 1..n] : \A i, j \in 1..n : i # j => f[i] # f[j]}

\* db.query(Message).order_by(Message.created_at).all(): the rows sorted by
\* created_at; the order of rows with equal created_at is the database's choice.
QueryAll(rows) ==
    {[i \in 1..Len(rows) |-> rows[f[i]]] : f \in
        {g \in Perms(Len(rows)) : \A i, j \in 1..Len(rows) :
            i < j => rows[g[i]].created_at <= rows[g[j]].created_at}}

\* ------------------------------------------------------------------ state
VARIABLES
    connections,  \* the registry dict {role: WebSocket}
    store,        \* the committed rows of the messages table, in commit order
    nextId,       \* the next value of the id sequence
    now,          \* datetime.utcnow() at the last insert
    pc,           \* per session: where its coroutine is suspended
    role,         \* per session: the role verify_token returned
    open,         \* per websocket: open at both ends
    hist,         \* per session: rows of the replay query still to send
    msg,          \* per session: the Message being broadcast
    it,           \* per session: the iterator of the broadcast loop
    target,       \* per session: the websocket the pending send is addressed to
    clearPc,      \* where the latest clear_chat call is
    clearIt,      \* the iterator of its notification loop
    tasks,        \* per websocket: pending tasks sending it the cleared event
    tokkind,      \* per session: the kind of token it presented
    received,     \* number of inbound payloads so far (the next body)
    clears,       \* number of clear requests so far
    sent,         \* per websocket: the events sent on it, in order
    committed,    \* bodies committed to the store so far
    lastReg,      \* per role: the websocket registered last
    clearLive,    \* the websockets registered and open when the store was wiped
    notified,     \* the websockets a cleared send was attempted on since
    clearStale,   \* the websockets registered but closed when the store was wiped
    visited       \* the websockets its notification loop has come to

svars == <<pc, role, open, hist, msg, it, target, tokkind>>
cvars == <<clearPc, clearIt, tasks, clears, clearLive, notified, clearStale, visited>>
hvars == <<received, sent, committed, lastReg>>
dvars == <<store, nextId, now>>
vars  == <<connections, dvars, svars, cvars, hvars>>

\* websocket.send_json(...) of a row / of the cleared event, as logged
Event(kind, m) == [kind |-> kind, m |-> m]

Init ==
    /\ connections = <<>>
    /\ store = <<>>
    /\ nextId = 1
    /\ now = 0
    /\ pc = [s \in Sess |-> "connecting"]
    /\ role = [s \in Sess |-> "-"]
    /\ open = [s \in Sess |-> FALSE]
    /\ hist = [s \in Sess |-> <<>>]
    /\ msg = [s \in Sess |-> NoMsg]
    /\ it = [s \in Sess |-> NoIter]
    /\ target = [s \in Sess |-> 0]
    /\ clearPc = "idle"
    /\ clearIt = NoIter
    /\ tasks = [s \in Sess |-> 0]
    /\ tokkind = [s \in Sess |-> "-"]
    /\ received = 0
    /\ clears = 0
    /\ sent = [s \in Sess |-> <<>>]
    /\ committed = {}
    /\ lastReg = [r \in Roles |-> 0]
    /\ clearLive = {}
    /\ notified = {}
    /\ clearStale = {}
    /\ visited = {}

\* The coroutine of s ends with the registry left as conns: `finally` closes
\* the db session, the server closes the websocket.
Terminate(s, conns) ==
    /\ pc' = [pc EXCEPT ![s] = "terminated"]
    /\ open' = [open EXCEPT ![s] = FALSE]
    /\ hist' = [hist EXCEPT ![s] = <<>>]
    /\ msg' = [msg EXCEPT ![s] = NoMsg]
    /\ it' = [it EXCEPT ![s] = NoIter]
    /\ target' = [target EXCEPT ![s] = 0]
    /\ connections' = conns

\* a registry that is a list of pairs: connections.append((role, websocket))
RegisterAppend(s, r) == Append(connections, [role |-> r, ws |-> s])
\* connections[role] = websocket
Register(s, r) == DictSet(connections, r, s)

\* except WebSocketDisconnect: del connections[role]
\* (a KeyError, which leaves the dict as it is, when the role has no entry)
Unregister(s) ==
    IF DictHas(connections, role[s]) THEN DictDel(connections, role[s])
    ELSE connections

\* What an exception raised inside the `try` does to the registry: only
\* WebSocketDisconnect reaches the except clause.
AfterRaise(s, exc) ==
    IF exc = "WebSocketDisconnect" THEN Unregister(s) ELSE connections

\* ---------------------------------------------------------------- sessions
\* A connection attempt whose token verify_token refuses: the HTTPException
\* leaves the endpoint before accept().
Reject(s, token) ==
    /\ pc[s] = "connecting"
    /\ s > 1 => pc[s - 1] # "connecting"
    /\ verify_token(token) \notin Roles
    /\ tokkind' = [tokkind EXCEPT ![s] = token.kind]
    /\ Terminate(s, connections)
    /\ UNCHANGED <<dvars, role, cvars, hvars>>

\* A connection attempt with a good token: verify_token; accept();
\* connections[role] = websocket; db = SessionLocal(); the history query runs;
\* the coroutine suspends in the first replay send, or in receive_text() when
\* there is no history.  (verify_token and accept() touch nothing shared, so
\* the suspension in accept() is taken before them.)  Websocket objects are
\* numbered in the order the attempts arrive.
Connect(s, token) ==
    /\ pc[s] = "connecting"
    /\ s > 1 => pc[s - 1] # "connecting"
    /\ verify_token(token) \in Roles
    /\ tokkind' = [tokkind EXCEPT ![s] = token.kind]
    /\ role' = [role EXCEPT ![s] = verify_token(token)]
    /\ open' = [open EXCEPT ![s] = TRUE]
    /\ connections' = Register(s, verify_token(token))
    /\ lastReg' = [lastReg EXCEPT ![verify_token(token)] = s]
    /\ \E q \in QueryAll(store) :
         /\ hist' = [hist EXCEPT ![s] = q]
         /\ pc' = [pc EXCEPT ![s] = IF q = <<>> THEN "active" ELSE "replaying"]
    /\ UNCHANGED <<dvars, msg, it, target, cvars, received, sent, committed>>

\* The same, but the history query raises (the store is unavailable): the
\* exception leaves the coroutine from outside the `try`.
ConnectQueryFail(s, token) ==
    /\ pc[s] = "connecting"
    /\ s > 1 => pc[s - 1] # "connecting"
    /\ verify_token(token) \in Roles
    /\ tokkind' = [tokkind EXCEPT ![s] = token.kind]
    /\ role' = [role EXCEPT ![s] = verify_token(token)]
    /\ lastReg' = [lastReg EXCEPT ![verify_token(token)] = s]
    /\ Terminate(s, Register(s, verify_token(token)))
    /\ UNCHANGED <<dvars, cvars, received, sent, committed>>

\* One `await websocket.send_json(...)` of the replay loop completes.
ReplaySend(s) ==
    /\ pc[s] = "replaying"
    /\ open[s]
    /\ sent' = [sent EXCEPT ![s] = Append(@, Event("replay", Head(hist[s])))]
    /\ hist' = [hist EXCEPT ![s] = Tail(@)]
    /\ pc' = [pc EXCEPT ![s] = IF Tail(hist[s]) = <<>> THEN "active" ELSE "replaying"]
    /\ UNCHANGED <<connections, dvars, role, open, msg, it, target, tokkind,
                   cvars, received, committed, lastReg>>

\* ... or raises, the client being gone: the replay loop is outside the `try`.
ReplaySendFail(s) ==
    /\ pc[s] = "replaying"
    /\ ~open[s]
    /\ Terminate(s, connections)
    /\ UNCHANGED <<dvars, role, tokkind, cvars, hvars>>

\* The broadcast loop asks its iterator for the next websocket: the send to it
\* is awaited, or the loop is over and the coroutine awaits receive_text(), or
\* the dict changed size under the iterator and RuntimeError ends the
\* coroutine.  An entry met after every owed value was produced raises too
\* ("dictionary keys changed during iteration") or is served, by interpreter
\* version.
Step(s, m, iter) ==
    LET n == DictNext(connections, iter) IN
    \/ /\ n.st \in {"item", "late"}
       /\ pc' = [pc EXCEPT ![s] = "broadcasting"]
       /\ msg' = [msg EXCEPT ![s] = m]
       /\ it' = [it EXCEPT ![s] = n.it]
       /\ target' = [target EXCEPT ![s] = n.ws]
       /\ UNCHANGED <<connections, open, hist>>
    \/ /\ n.st = "end"
       /\ pc' = [pc EXCEPT ![s] = "active"]
       /\ msg' = [msg EXCEPT ![s] = NoMsg]
       /\ it' = [it EXCEPT ![s] = NoIter]
       /\ target' = [target EXCEPT ![s] = 0]
       /\ UNCHANGED <<connections, open, hist>>
    \/ /\ n.st \in {"error", "late"}
       /\ Terminate(s, connections)

\* datetime.utcnow() at an insert: the value of the previous insert or a later
\* one (with no row in the table the two cannot be told apart).
UtcNow == IF store = <<>> THEN {now + 1} ELSE {now, now + 1}

\* receive_text() returns a payload; msg = Message(role, data); db.add;
\* db.commit() assigns id and created_at; the broadcast loop starts.
Receive(s) ==
    /\ pc[s] = "active"
    /\ open[s]
    /\ received < MaxMsgs
    /\ received' = received + 1
    /\ \E t \in UtcNow :
         LET m == Message(nextId, role[s], received + 1, t) IN
         /\ now' = t
         /\ nextId' = nextId + 1
         /\ store' = Append(store, m)
         /\ committed' = committed \cup {m.body}
         /\ Step(s, m, DictIter(connections))
    /\ UNCHANGED <<role, tokkind, cvars, sent, lastReg>>

\* a loop that broadcasts the payload although its commit raised
ReceiveCommitFailBroadcast(s) ==
    /\ pc[s] = "active"
    /\ open[s]
    /\ received < MaxMsgs
    /\ received' = received + 1
    /\ Step(s, Message(nextId, role[s], received + 1, now), DictIter(connections))
    /\ UNCHANGED <<dvars, role, tokkind, cvars, sent, committed, lastReg>>
\* ... or db.commit() raises: not a WebSocketDisconnect, so only `finally` runs.
ReceiveCommitFail(s) ==
    /\ pc[s] = "active"
    /\ open[s]
    /\ received < MaxMsgs
    /\ received' = received + 1
    /\ Terminate(s, connections)
    /\ UNCHANGED <<dvars, role, tokkind, cvars, sent, committed, lastReg>>

\* a loop that sends the first row of the table in place of msg
BroadcastSendFirstRow(s) ==
    /\ pc[s] = "broadcasting"
    /\ open[target[s]]
    /\ sent' = [sent EXCEPT ![target[s]] =
                  Append(@, Event("live", IF store = <<>> THEN msg[s] ELSE store[1]))]
    /\ Step(s, msg[s], it[s])
    /\ UNCHANGED <<dvars, role, tokkind, cvars, received, committed, lastReg>>
\* a loop that leaves the sender's own websocket out of the fan-out
BroadcastSendNoEcho(s) ==
    /\ pc[s] = "broadcasting"
    /\ open[target[s]]
    /\ sent' = IF target[s] = s THEN sent
               ELSE [sent EXCEPT ![target[s]] = Append(@, Event("live", msg[s]))]
    /\ Step(s, msg[s], it[s])
    /\ UNCHANGED <<dvars, role, tokkind, cvars, received, committed, lastReg>>
\* The awaited `ws.send_json(...)` of the broadcast loop completes.
BroadcastSend(s) ==
    /\ pc[s] = "broadcasting"
    /\ open[target[s]]
    /\ sent' = [sent EXCEPT ![target[s]] = Append(@, Event("live", msg[s]))]
    /\ Step(s, msg[s], it[s])
    /\ UNCHANGED <<dvars, role, tokkind, cvars, received, committed, lastReg>>

\* ... or raises, the target being closed: WebSocketDisconnect or another
\* exception, by the version of the websocket library.
BroadcastSendFail(s, exc) ==
    /\ pc[s] = "broadcasting"
    /\ ~open[target[s]]
    /\ Terminate(s, AfterRaise(s, exc))
    /\ UNCHANGED <<dvars, role, tokkind, cvars, hvars>>

\* The client closes its end of the transport.
ClientClose(s) ==
    /\ pc[s] \in {"replaying", "active", "broadcasting"}
    /\ open[s]
    /\ open' = [open EXCEPT ![s] = FALSE]
    /\ UNCHANGED <<connections, dvars, pc, role, hist, msg, it, target, tokkind,
                   cvars, hvars>>

\* receive_text() raises WebSocketDisconnect.
Disconnect(s) ==
    /\ pc[s] = "active"
    /\ ~open[s]
    /\ Terminate(s, AfterRaise(s, "WebSocketDisconnect"))
    /\ UNCHANGED <<dvars, role, tokkind, cvars, hvars>>

\* ------------------------------------------------------------------- clear
\* a route that verifies the token only after the rows are deleted
ClearRejectAfterDelete(token) ==
    /\ clearPc # "notifying"
    /\ clears < MaxClears
    /\ verify_token(token) \notin Roles
    /\ clears' = clears + 1
    /\ clearPc' = "rejected"
    /\ store' = <<>>
    /\ UNCHANGED <<connections, nextId, now, svars, hvars, clearIt, tasks, clearLive,
                   notified, clearStale, visited>>
\* POST /clear with a token verify_token refuses: the HTTPException is the
\* response.
ClearReject(token) ==
    /\ clearPc # "notifying"
    /\ clears < MaxClears
    /\ verify_token(token) \notin Roles
    /\ clears' = clears + 1
    /\ clearPc' = "rejected"
    /\ UNCHANGED <<connections, dvars, svars, hvars, clearIt, tasks, clearLive, notified,
                   clearStale, visited>>

\* a delete that misses the newest row
DeleteAllButLast(rows) == IF rows = <<>> THEN <<>> ELSE <<rows[Len(rows)]>>
\* db.query(Message).delete()
DeleteAll(rows) == <<>>

\* POST /clear with a good token: the rows are deleted and the delete is
\* committed; the notification loop starts.
ClearBegin(token) ==
    /\ clearPc # "notifying"
    /\ clears < MaxClears
    /\ verify_token(token) \in Roles
    /\ clears' = clears + 1
    /\ store' = DeleteAll(store)
    /\ clearPc' = "notifying"
    /\ clearIt' = DictIter(connections)
    /\ clearLive' = {w \in DictValues(connections) : open[w]}
    /\ notified' = {}
    /\ clearStale' = {w \in DictValues(connections) : ~open[w]}
    /\ visited' = {}
    /\ UNCHANGED <<connections, nextId, now, svars, hvars, tasks>>

\* a notification loop without the try: a closed websocket fails the request
ClearNextNoTry ==
    /\ clearPc = "notifying"
    /\ LET n == DictNext(connections, clearIt) IN
       \/ /\ n.st = "end"
          /\ clearPc' = "returned"
          /\ clearIt' = NoIter
          /\ UNCHANGED <<tasks, visited>>
       \/ /\ \/ n.st \in {"error", "late"}
             \/ n.st \in {"item", "late"} /\ ~open[n.ws]
          /\ clearPc' = "failed"
          /\ clearIt' = NoIter
          /\ UNCHANGED <<tasks, visited>>
       \/ /\ n.st \in {"item", "late"}
          /\ open[n.ws]
          /\ clearIt' = n.it
          /\ visited' = visited \cup {n.ws}
          /\ \/ tasks' = [tasks EXCEPT ![n.ws] = @ + 1]
             \/ UNCHANGED tasks
          /\ UNCHANGED clearPc
    /\ UNCHANGED <<connections, dvars, svars, hvars, clears, clearLive, notified,
                   clearStale>>
\* One turn of `for ws in connections.values()`: the loop is over and the
\* request returns {"status": "cleared"}; or the dict changed size and the
\* RuntimeError, raised outside the `try`, fails the request; or, for the
\* next websocket, asyncio.create_task either schedules the send or raises
\* (no running event loop in the thread the route runs in), which
\* `except: pass` swallows.
ClearNext ==
    /\ clearPc = "notifying"
    /\ LET n == DictNext(connections, clearIt) IN
       \/ /\ n.st = "end"
          /\ clearPc' = "returned"
          /\ clearIt' = NoIter
          /\ UNCHANGED <<tasks, visited>>
       \/ /\ n.st \in {"error", "late"}
          /\ clearPc' = "failed"
          /\ clearIt' = NoIter
          /\ UNCHANGED <<tasks, visited>>
       \/ /\ n.st \in {"item", "late"}
          /\ clearIt' = n.it
          /\ visited' = visited \cup {n.ws}
          /\ \/ tasks' = [tasks EXCEPT ![n.ws] = @ + 1]
             \/ UNCHANGED tasks
          /\ UNCHANGED clearPc
    /\ UNCHANGED <<connections, dvars, svars, hvars, clears, clearLive, notified,
                   clearStale>>

\* A scheduled task runs ws.send_json({"event": "cleared"}); what the send
\* raises on a closed websocket is lost with the task.
ClearTask(w) ==
    /\ tasks[w] > 0
    /\ tasks' = [tasks EXCEPT ![w] = @ - 1]
    /\ notified' = notified \cup {w}
    /\ sent' = IF open[w] THEN [sent EXCEPT ![w] = Append(@, Event("cleared", NoMsg))]
               ELSE sent
    /\ UNCHANGED <<connections, dvars, svars, clearPc, clearIt, clears, clearLive,
                   clearStale, visited, received, committed, lastReg>>

Next ==
    \/ \E s \in Sess, token \in Tokens : Reject(s, token)
    \/ \E s \in Sess, token \in Tokens : Connect(s, token)
    \/ \E s \in Sess, token \in Tokens : ConnectQueryFail(s, token)
    \/ \E s \in Sess : ReplaySend(s)
    \/ \E s \in Sess : ReplaySendFail(s)
    \/ \E s \in Sess : Receive(s)
    \/ \E s \in Sess : ReceiveCommitFail(s)
    \/ \E s \in Sess : BroadcastSend(s)
    \/ \E s \in Sess, exc \in {"WebSocketDisconnect", "other"} : BroadcastSendFail(s, exc)
    \/ \E s \in Sess : ClientClose(s)
    \/ \E s \in Sess : Disconnect(s)
    \/ \E token \in Tokens : ClearReject(token)
    \/ \E token \in Tokens : ClearBegin(token)
    \/ ClearNext
    \/ \E w \in Sess : ClearTask(w)

Spec == Init /\ [][Next]_vars

\* ------------------------------------------------------------------ claims
Events(w) == {sent[w][i] : i \in 1..Len(sent[w])}
IsRow(e) == e.kind \in {"replay", "live"}
Registered(s) == DictHas(connections, role[s]) /\ DictGet(connections, role[s]) = s

\* C1: every row sent on a websocket, in a replay or in a broadcast, and every
\* row a broadcast loop is sending, was committed to the store before; the
\* payload of a failed commit is sent to nobody.
NoBroadcastBeforePersist ==
    /\ \A w \in Sess : \A e \in Events(w) : IsRow(e) => e.m.body \in committed
    /\ \A s \in Sess : pc[s] = "broadcasting" => msg[s].body \in committed
    /\ \A w \in Sess : \A e \in Events(w) :
         IsRow(e) => e.m.body \notin ((1..received) \ committed)

\* C1 witness: a commit has failed, another payload was committed and broadcast.
CommitFailedAndBroadcastSeen ==
    /\ (1..received) \ committed # {}
    /\ \E w \in Sess : \E e \in Events(w) : e.kind = "live"

\* C2: while the session registered last for a role has not terminated, the
\* registry maps the role to its websocket (a disconnect of an earlier session
\* of the role does not remove it).
StaleUnregisterSafe ==
    \A r \in Roles :
        (lastReg[r] # 0 /\ pc[lastReg[r]] # "terminated")
            => (DictHas(connections, r) /\ DictGet(connections, r) = lastReg[r])

\* C3: the registry never maps a role to the websocket of a terminated session.
GuaranteedCleanup ==
    \A s \in Sess : (pc[s] = "terminated" /\ role[s] \in Roles) => ~Registered(s)

\* C4: a registered session whose pending broadcast send is addressed to
\* another, closed, websocket does not terminate: the failed send is skipped.
BroadcastFailureIsolated ==
    [][\A s \in Sess :
         (pc[s] = "broadcasting" /\ Registered(s) /\ target[s] # s /\ ~open[target[s]])
            => pc'[s] # "terminated"]_vars

\* C5: when a clear that found both roles registered with open websockets has
\* returned its acknowledgment, the cleared event was sent, or its send
\* attempted, on each of them.
ClearNotifies ==
    (clearPc = "returned" /\ Cardinality(clearLive) = 2) => clearLive \subseteq notified

\* C6: a clear with a valid token leaves the store empty; a session that
\* connects while it is empty replays nothing; an append to the empty store
\* makes its row the only row.
ClearCorrect ==
    [][/\ (clears' # clears /\ clearPc' = "notifying") => store' = <<>>
       /\ \A s \in Sess :
            (store = <<>> /\ pc[s] = "connecting" /\ role'[s] \in Roles /\ open'[s])
                => (hist'[s] = <<>> /\ pc'[s] = "active")
       /\ (store = <<>> /\ committed' # committed)
            => (Len(store') = 1 /\ store'[1].body = received')]_vars

\* C6 witness: a clear has returned, and the store holds only the row
\* appended after it.
AppendedAfterClear ==
    /\ clearPc = "returned"
    /\ 1 \in committed
    /\ Len(store) = 1
    /\ store[1].body = 2

\* C7: the registry holds at most 2 entries, never two for one role, and a
\* role's entry is the websocket registered last for the role.
AtMostOnePerRole ==
    /\ DictLen(connections) <= 2
    /\ \A i, j \in 1..Len(connections) :
         (i # j /\ connections[i] # Hole) => connections[i].role # connections[j].role
    /\ \A r \in Roles : DictHas(connections, r) => DictGet(connections, r) = lastReg[r]

\* C7 witness: two live sessions registered for one role; the registry holds
\* the second.
TwoSessionsOneRole ==
    /\ role[1] \in Roles
    /\ role[1] = role[2]
    /\ pc[1] # "terminated"
    /\ pc[2] # "terminated"
    /\ DictGet(connections, role[2]) = 2

\* C8: a connection attempt with an expired or invalid token is terminated at
\* once: it has no role, no registry entry, was sent nothing, and is not in
\* the replay or the receive loop.
RejectedConnection ==
    \A s \in Sess :
        tokkind[s] \in {"expired", "invalid"}
            => /\ pc[s] = "terminated"
               /\ role[s] = "-"
               /\ s \notin DictValues(connections)
               /\ \A r \in Roles : lastReg[r] # s
               /\ sent[s] = <<>>

\* C8 witness: an attempt with an expired token was made while another
\* session is registered and a row is in the store.
ExpiredTokenRejected ==
    /\ \E s \in Sess : tokkind[s] = "expired"
    /\ connections # <<>>
    /\ store # <<>>

\* C9: on every websocket, the broadcasts of two rows of different roles
\* arrive in the order the rows were committed.
CommitOrderBroadcast ==
    \A w \in Sess : \A i, j \in 1..Len(sent[w]) :
        (/\ i < j
         /\ sent[w][i].kind = "live"
         /\ sent[w][j].kind = "live"
         /\ sent[w][i].m.role # sent[w][j].m.role)
            => sent[w][i].m.id < sent[w][j].m.id

\* C10: a websocket is sent no broadcast while its replay is unfinished, and
\* no replay row after a broadcast.
ReplayPrecedesLive ==
    \A w \in Sess :
        /\ pc[w] = "replaying" => \A e \in Events(w) : e.kind # "live"
        /\ \A i, j \in 1..Len(sent[w]) :
             i < j => ~(sent[w][i].kind = "live" /\ sent[w][j].kind = "replay")

\* C11: a row is broadcast to a websocket only while it is in the store: a
\* row that a clear has wiped is broadcast to nobody afterwards.
NoBroadcastOfWipedRow ==
    [][\A w \in Sess :
         (Len(sent'[w]) > Len(sent[w]) /\ sent'[w][Len(sent'[w])].kind = "live")
            => \E i \in 1..Len(store) : store[i] = sent'[w][Len(sent'[w])].m]_vars

\* C12: a fan-out whose pending send can be delivered does not fail, whatever
\* other sessions have registered or unregistered since it started.
FanOutSnapshotIsolated ==
    [][\A s \in Sess :
         (pc[s] = "broadcasting" /\ open[target[s]]) => pc'[s] # "terminated"]_vars

\* C13: the history queried for a connecting session is the store content in
\* insertion order, also when rows have equal created_at.
ReplayInInsertionOrder ==
    [][\A s \in Sess :
         (pc[s] = "connecting" /\ pc'[s] \in {"replaying", "active"})
            => hist'[s] = store]_vars

\* the sessions that presented a token of role r
SessionsOf(r) == {s \in Sess : role[s] = r}

\* C14: rows are committed in the order their payloads were received, and a
\* websocket that is sent two broadcasts of one sending session (the only
\* session of its role) is sent them in that order.
PerSenderOrder ==
    /\ \A i, j \in 1..Len(store) :
         i < j => (store[i].body < store[j].body /\ store[i].id < store[j].id)
    /\ \A w \in Sess : \A i, j \in 1..Len(sent[w]) :
         (/\ i < j
          /\ sent[w][i].kind = "live"
          /\ sent[w][j].kind = "live"
          /\ sent[w][i].m.role = sent[w][j].m.role
          /\ Cardinality(SessionsOf(sent[w][i].m.role)) = 1)
            => sent[w][i].m.body < sent[w][j].m.body

\* C14 witness: another session's websocket was sent both payloads of one
\* sender.
TwoBroadcastsOfOneSender ==
    \E w \in Sess :
        /\ Len(sent[w]) = 2
        /\ sent[w][1].kind = "live"
        /\ sent[w][2].kind = "live"
        /\ sent[w][1].m.role = sent[w][2].m.role
        /\ sent[w][1].m.role # role[w]
        /\ role[w] \in Roles

\* the number of broadcasts of row m sent on websocket w, in log q
LiveCount(q, m) == Cardinality({i \in 1..Len(q) : q[i] = Event("live", m)})

\* C15: a committed payload adds exactly one row, with the sender's role and
\* the body, to the store; and when the fan-out of a session ends, both roles
\* being registered from its start (each role has one session), each of the
\* two websockets, the sender's included, was sent exactly one broadcast of
\* that row.
BroadcastToAll ==
    [][/\ committed' # committed
            => /\ store' = Append(store, store'[Len(store')])
               /\ store'[Len(store')].body = received'
               /\ \A s \in Sess :
                    (pc[s] = "active" /\ pc'[s] = "broadcasting")
                        => (msg'[s] = store'[Len(store')] /\ msg'[s].role = role[s])
       /\ \A s \in Sess :
            (/\ pc[s] = "broadcasting"
             /\ pc'[s] = "active"
             /\ it[s].used = 2
             /\ \A r \in Roles : Cardinality(SessionsOf(r)) = 1)
                => \A r \in Roles : \A w \in SessionsOf(r) :
                     LiveCount(sent'[w], msg[s]) = 1]_vars

\* C15 witness: the Guest's payload is the only row, and the Admin's and the
\* Guest's websocket were each sent its broadcast, once.
GuestPayloadBroadcastToBoth ==
    /\ Len(store) = 1
    /\ store[1].role = "Y"
    /\ \A r \in Roles : Cardinality(SessionsOf(r)) = 1
    /\ \A s \in Sess : pc[s] = "active" /\ sent[s] = <<Event("live", store[1])>>

\* the number of times row m was sent, in a replay or a broadcast, in log q
RowCount(q, m) == Cardinality({i \in 1..Len(q) : IsRow(q[i]) /\ q[i].m = m})

\* C16: with no clear, no failure and every session connected and idle in
\* its receive loop, each websocket was sent each row of the store exactly
\* once.
ExactlyOnceDelivery ==
    (clears = 0 /\ \A s \in Sess : pc[s] = "active" /\ open[s])
        => \A w \in Sess : \A i \in 1..Len(store) : RowCount(sent[w], store[i]) = 1

\* C17: a clear request with an expired or invalid token changes neither the
\* store nor the registry, and no cleared event is sent or scheduled.
RejectedClearNoEffect ==
    [][(clears' # clears /\ clearPc' = "rejected")
          => UNCHANGED <<store, connections, sent, tasks>>]_vars

\* C17 witness: a clear was rejected while both roles are registered and the
\* store holds a row.
ClearRejectedWithHistory ==
    /\ clearPc = "rejected"
    /\ store # <<>>
    /\ DictLen(connections) = 2
    /\ \A w \in Sess : tasks[w] = 0 /\ \A e \in Events(w) : e.kind # "cleared"

\* C18: the notification loop of a clear fails the request only when the
\* registry changed under it, never because a websocket is closed; a task
\* that runs its send, failing or not, changes nothing of the request; and when the request has returned
\* its acknowledgment, the loop has come to every websocket, open or closed,
\* that was registered when the store was wiped and still is.
ClearToleratesStale ==
    [][/\ (clearPc = "notifying" /\ clearPc' = "failed")
            => (clearIt.used # DictLen(connections) \/ clearIt.len = 0)
       /\ (\E w \in Sess : tasks'[w] < tasks[w]) => clearPc' = clearPc
       /\ clearPc' = "returned"
            => ((clearLive' \cup clearStale') \cap DictValues(connections')) \subseteq visited']_vars

\* C18 witness: the clear found a closed and an open websocket registered,
\* the send to the closed one was run and failed, the open one was sent the
\* event, and the request returned its acknowledgment.
ClearedDespiteStale ==
    /\ clearPc = "returned"
    /\ \E w \in clearStale : w \in notified /\ \A e \in Events(w) : e.kind # "cleared"
    /\ \E w \in clearLive : \E e \in Events(w) : e.kind = "cleared"

\* C19: a session whose registry entry a newer session of its role has
\* taken, and that is waiting in its receive loop, takes no further payload:
\* it persists no row and starts no broadcast.
SupersededGoQuiet ==
    [][\A s \in Sess :
         (pc[s] = "active" /\ ~Registered(s) /\ lastReg[role[s]] # s)
            => ~Receive(s)]_vars

====
